---------------------------- MODULE Spec2Model ----------------------------
(***************************************************************************)
(* Results pipeline of approximate-rs: the sweep driver                    *)
(* (src/run_experiment.py) and the normalization / enrichment half         *)
(* (src/plot_results.py).                                                  *)
(*                                                                         *)
(* Python values are tagged records: dict (an insertion-ordered sequence   *)
(* of <<key, value>> pairs), list, int, str, float, timedelta, and the     *)
(* float specials nan / inf / NaT.  JSON text is represented by the JSON   *)
(* value it denotes: object, array, number, string.                        *)
(***************************************************************************)
EXTENDS Integers, Sequences, FiniteSets, TLC

VARIABLES
    \* ---- run_experiment.main ----
    args,       \* the sweep handed to main
    outfile,    \* the results file: [exists, text]
    pc,         \* position inside main / the plotting script
    idx,        \* loop index of main (enumerate(args, start=1))
    results,    \* defaultdict(list): ordered pairs <<name, sequence of records>>
    stdout,     \* the progress indices printed so far
    returned,   \* the records execute_run has returned, in execution order
    calls,      \* number of execute_run invocations started
    writes,     \* number of outfile.write_text calls
    plot,       \* outcome of the plotting script's reading of the file
    \* ---- plot_results normalization pipeline ----
    ndoc,       \* the JSON document in results.json
    nstep,      \* number of pipeline stages applied
    nval,       \* the value flowing through compose(...)
    nprev,      \* the value before the last stage applied
    \* ---- plot_results.enhance / pivot ----
    table,      \* the DataFrame rows handed to enhance
    epc,        \* "start", "enhanced", "raised", "pivoted"
    pivot       \* the observed_fpp pivot cells: sequence of [cell, mean]

mainVars == <<args, outfile, pc, idx, results, stdout, returned, calls, writes, plot>>
normVars == <<ndoc, nstep, nval, nprev>>
enhVars  == <<table, epc, pivot>>
vars     == <<mainVars, normVars, enhVars>>

-----------------------------------------------------------------------------
(* Bounds of the model *)

MaxSweep == 3      \* longest sweep handed to main
MaxRows == 2       \* most rows of a table handed to enhance

-----------------------------------------------------------------------------
(* Python / JSON values *)

PyInt(n)        == [tag |-> "int", val |-> n]
PyStr(s)        == [tag |-> "str", str |-> s]
PyFloat(n, d)   == [tag |-> "float", num |-> n, den |-> d]
PyList(xs)      == [tag |-> "list", elems |-> xs]
PyDict(kvs)     == [tag |-> "dict", items |-> kvs]
PyTimedelta(s, us) == [tag |-> "timedelta", seconds |-> s, microseconds |-> us]

JNumber(n)      == [tag |-> "number", val |-> n]
JReal(n, d)     == [tag |-> "real", num |-> n, den |-> d]
JString(s)      == [tag |-> "string", str |-> s]
JArray(xs)      == [tag |-> "array", elems |-> xs]
JObject(kvs)    == [tag |-> "object", members |-> kvs]

\* dict helpers: a dict's items are <<key, value>> pairs in insertion order
Keys(items)      == {items[i][1] : i \in DOMAIN items}
HasKey(items, k) == \E i \in DOMAIN items : items[i][1] = k
Get(items, k)    == items[CHOOSE i \in DOMAIN items : items[i][1] = k][2]
\* d[k] = v: an existing key keeps its position and takes the new value
DictSet(items, k, v) ==
    IF HasKey(items, k)
    THEN [i \in DOMAIN items |-> IF items[i][1] = k THEN <<k, v>> ELSE items[i]]
    ELSE Append(items, <<k, v>>)

RECURSIVE DictFromItems(_, _)
\* a dict display / comprehension: the pairs are inserted left to right
DictFromItems(acc, kvs) ==
    IF kvs = <<>> THEN acc
    ELSE DictFromItems(DictSet(acc, kvs[1][1], kvs[1][2]), Tail(kvs))

RECURSIVE json_dumps(_)
json_dumps(v) ==
    CASE v.tag = "dict" ->
           JObject([i \in DOMAIN v.items |->
                        <<v.items[i][1], json_dumps(v.items[i][2])>>])
      [] v.tag = "list" ->
           JArray([i \in DOMAIN v.elems |-> json_dumps(v.elems[i])])
      [] v.tag = "int"   -> JNumber(v.val)
      [] v.tag = "float" -> JReal(v.num, v.den)
      [] v.tag = "str"   -> JString(v.str)

RECURSIVE json_loads(_)
json_loads(j) ==
    CASE j.tag = "object" ->
           PyDict(DictFromItems(<<>>,
               [i \in DOMAIN j.members |->
                    <<j.members[i][1], json_loads(j.members[i][2])>>]))
      [] j.tag = "array" ->
           PyList([i \in DOMAIN j.elems |-> json_loads(j.elems[i])])
      [] j.tag = "number" -> PyInt(j.val)
      [] j.tag = "real"   -> PyFloat(j.num, j.den)
      [] j.tag = "string" -> PyStr(j.str)

-----------------------------------------------------------------------------
(* run_experiment.py: configs and execute_run *)

KMER_SIZE == 30

NameOf(cls) ==
    CASE cls = "Mphf"        -> "mphf"
      [] cls = "BloomFilter" -> "bloom-filter"
      [] cls = "Fingerprint" -> "fingerprint"

\* the attrs instances the sweep is drawn from
Configs ==
    {[cls |-> "Mphf", positive_keys |-> p, total_keys |-> 2, kmer_size |-> KMER_SIZE]
        : p \in {1, 2}}
    \cup {[cls |-> "BloomFilter", positive_keys |-> 1, total_keys |-> 2,
           kmer_size |-> KMER_SIZE, fpp |-> PyFloat(1, 128)]}
    \cup {[cls |-> "Fingerprint", positive_keys |-> 1, total_keys |-> 2,
           kmer_size |-> KMER_SIZE, width |-> 7]}

\* cattrs.unstructure(arg): the fields in declaration order
unstructure(arg) ==
    LET common == << <<"positive_keys", PyInt(arg.positive_keys)>>,
                     <<"total_keys", PyInt(arg.total_keys)>>,
                     <<"kmer_size", PyInt(arg.kmer_size)>> >>
        name   == << <<"name", PyStr(NameOf(arg.cls))>> >>
    IN  CASE arg.cls = "Mphf"        -> common \o name
          [] arg.cls = "BloomFilter" -> common \o << <<"fpp", arg.fpp>> >> \o name
          [] arg.cls = "Fingerprint" ->
                 common \o << <<"width", PyInt(arg.width)>> >> \o name

\* what the external program can answer: exit status and standard output
NotJson == [parses |-> FALSE]
StdoutOf(j) == [parses |-> TRUE, json |-> j]

\* an answer whose keys are disjoint from the config's
OutDisjoint ==
    JObject(<< <<"negative_keys", JNumber(1)>>,
               <<"false_positive_count", JNumber(0)>> >>)
\* an answer that repeats a config key with its own value
OutCollide ==
    JObject(<< <<"total_keys", JNumber(9)>>,
               <<"negative_keys", JNumber(1)>> >>)

Procs ==
    {[returncode |-> 1, stdout |-> NotJson],
     [returncode |-> 0, stdout |-> NotJson],
     [returncode |-> 0, stdout |-> StdoutOf(OutDisjoint)],
     [returncode |-> 0, stdout |-> StdoutOf(OutCollide)]}

\* {**a, **b}: a's pairs are inserted first, then b's
DictMerge(a, b) == DictFromItems(<<>>, a \o b)

\* mutant of execute_run: the merge the other way round
execute_run_config_wins(arg, proc) ==
    IF proc.returncode # 0 THEN [raised |-> "CalledProcessError"]
    ELSE IF ~proc.stdout.parses THEN [raised |-> "JSONDecodeError"]
    ELSE [raised |-> "none",
          value  |-> PyDict(DictMerge(json_loads(proc.stdout.json).items,
                                      unstructure(arg)))]

execute_run(arg, proc) ==
    IF proc.returncode # 0 THEN [raised |-> "CalledProcessError"]
    ELSE IF ~proc.stdout.parses THEN [raised |-> "JSONDecodeError"]
    ELSE [raised |-> "none",
          value  |-> PyDict(DictMerge(unstructure(arg),
                                      json_loads(proc.stdout.json).items))]

-----------------------------------------------------------------------------
(* plot_results.py: the normalization pipeline *)

RECURSIVE str_replace(_, _, _)
\* s.replace(old, new) for one-character old
str_replace(s, old, new) ==
    IF Len(s) = 0 THEN ""
    ELSE (IF SubSeq(s, 1, 1) = old THEN new ELSE SubSeq(s, 1, 1))
         \o str_replace(SubSeq(s, 2, Len(s)), old, new)

read_data(text) == json_loads(text)

\* mutant of convert_keys: the arguments of replace the other way round
convert_keys_swapped(obj) ==
    PyDict(DictFromItems(<<>>,
        [i \in DOMAIN obj.items |->
            <<str_replace(obj.items[i][1], "_", "-"), obj.items[i][2]>>]))

convert_keys(obj) ==
    PyDict(DictFromItems(<<>>,
        [i \in DOMAIN obj.items |->
            <<str_replace(obj.items[i][1], "-", "_"), obj.items[i][2]>>]))

\* datetime.timedelta(seconds=s, microseconds=n * 0.001): the float product
\* is rounded to whole microseconds, ties to even, and carried into seconds
timedelta(s, n) ==
    LET q  == n \div 1000
        r  == n % 1000
        us == IF r < 500 THEN q
              ELSE IF r > 500 THEN q + 1
              ELSE IF q % 2 = 0 THEN q ELSE q + 1
    IN  PyTimedelta(s + (us \div 1000000), us % 1000000)

is_duration(obj) ==
    obj.tag = "dict" /\ HasKey(obj.items, "secs") /\ HasKey(obj.items, "nanos")

RECURSIVE convert_timedelta_exact_keys(_)
\* mutant of convert_timedelta: only a mapping of exactly the two keys is a
\* duration
convert_timedelta_exact_keys(data) ==
    IF data.tag = "dict"
    THEN IF Keys(data.items) = {"secs", "nanos"}
         THEN timedelta(Get(data.items, "secs").val, Get(data.items, "nanos").val)
         ELSE PyDict([i \in DOMAIN data.items |->
                        <<data.items[i][1],
                          convert_timedelta_exact_keys(data.items[i][2])>>])
    ELSE IF data.tag = "list"
         THEN PyList([i \in DOMAIN data.elems |->
                        convert_timedelta_exact_keys(data.elems[i])])
         ELSE data

RECURSIVE convert_timedelta(_)
convert_timedelta(data) ==
    IF data.tag = "dict"
    THEN IF HasKey(data.items, "secs") /\ HasKey(data.items, "nanos")
         THEN timedelta(Get(data.items, "secs").val, Get(data.items, "nanos").val)
         ELSE PyDict([i \in DOMAIN data.items |->
                        <<data.items[i][1], convert_timedelta(data.items[i][2])>>])
    ELSE IF data.tag = "list"
         THEN PyList([i \in DOMAIN data.elems |-> convert_timedelta(data.elems[i])])
         ELSE data

Reverse(s) == [i \in 1..Len(s) |-> s[Len(s) + 1 - i]]

\* compose(*funcs): reduce(lambda left, right: lambda x: left(right(x)),
\* reversed(funcs)).  The composed callable is the nesting of the calls,
\* outermost first.
compose(funcs) == Reverse(funcs)

CallStage(name, x) ==
    CASE name = "read_data"         -> read_data(x)
      [] name = "convert_keys"      -> convert_keys(x)
      [] name = "convert_timedelta" -> convert_timedelta(x)

RECURSIVE Call(_, _)
\* calling a composed callable: the innermost stage sees the argument
Call(nesting, x) ==
    IF nesting = <<>> THEN x
    ELSE CallStage(nesting[1], Call(Tail(nesting), x))

Pipeline == compose(<<"read_data", "convert_keys", "convert_timedelta">>)

-----------------------------------------------------------------------------
(* run_experiment.main *)

Names == {NameOf(c) : c \in {"Mphf", "BloomFilter", "Fingerprint"}}

Sweeps == UNION {[1..n -> Configs] : n \in 0..MaxSweep}

\* the results file before main runs: absent, or left by an earlier sweep
Absent == [exists |-> FALSE]
Stale  == [exists |-> TRUE,
           text |-> JObject(<< <<"stale", JArray(<<>>)>> >>)]
InitialFiles == {Absent, Stale}

\* results[name]: a defaultdict(list) answers [] for a missing key
Stored(res, name) == IF HasKey(res, name) THEN Get(res, name) ELSE <<>>

\* the defaultdict as the value json.dumps sees
ResultsValue(res) ==
    PyDict([i \in DOMAIN res |-> <<res[i][1], PyList(res[i][2])>>])

MainIdle ==
    /\ args = <<>> /\ outfile = Absent /\ pc = "idle" /\ idx = 0
    /\ results = <<>> /\ stdout = <<>> /\ returned = <<>>
    /\ calls = 0 /\ writes = 0 /\ plot = "none"
NormIdle == ndoc = "idle" /\ nstep = 0 /\ nval = "idle" /\ nprev = "idle"
EnhIdle  == table = <<>> /\ epc = "idle" /\ pivot = <<>>

Init ==
    /\ args \in Sweeps
    /\ outfile \in InitialFiles
    /\ pc = "start" /\ idx = 0
    /\ results = <<>> /\ stdout = <<>> /\ returned = <<>>
    /\ calls = 0 /\ writes = 0 /\ plot = "none"
    /\ NormIdle /\ EnhIdle

\* lines 67-72: the build check touches neither the sweep nor the file
Start ==
    /\ pc = "start"
    /\ results' = <<>>
    /\ pc' = "for"
    /\ UNCHANGED <<args, outfile, idx, stdout, returned, calls, writes, plot>>
    /\ UNCHANGED <<normVars, enhVars>>

\* line 73: for idx, arg in enumerate(args, start=1)
ForNext ==
    /\ pc = "for"
    /\ IF idx < Len(args)
       THEN idx' = idx + 1 /\ pc' = "print"
       ELSE idx' = idx /\ pc' = "write"
    /\ UNCHANGED <<args, outfile, results, stdout, returned, calls, writes, plot>>
    /\ UNCHANGED <<normVars, enhVars>>

\* line 74: print(f"Completed experiment {idx: 3}/{len(args)}")
PrintProgress ==
    /\ pc = "print"
    /\ stdout' = Append(stdout, [idx |-> idx, total |-> Len(args)])
    /\ pc' = "run"
    /\ UNCHANGED <<args, outfile, idx, results, returned, calls, writes, plot>>
    /\ UNCHANGED <<normVars, enhVars>>

\* mutant of RunExperiment: a failed run is skipped and the sweep goes on
RunExperiment_skip_failed ==
    /\ pc = "run"
    /\ \E proc \in Procs :
         LET arg == args[idx]
             r   == execute_run(arg, proc)
         IN  /\ calls' = calls + 1
             /\ IF r.raised = "none"
                THEN /\ results' = DictSet(results, NameOf(arg.cls),
                            Append(Stored(results, NameOf(arg.cls)), r.value))
                     /\ returned' = Append(returned,
                            [idx |-> idx, arg |-> arg, out |-> proc.stdout.json,
                             record |-> r.value])
                ELSE UNCHANGED <<results, returned>>
             /\ pc' = "for"
    /\ UNCHANGED <<args, outfile, idx, stdout, writes, plot>>
    /\ UNCHANGED <<normVars, enhVars>>

\* mutant of RunExperiment: the record is put in front of its sequence
RunExperiment_prepend ==
    /\ pc = "run"
    /\ \E proc \in Procs :
         LET arg == args[idx]
             r   == execute_run(arg, proc)
         IN  /\ calls' = calls + 1
             /\ IF r.raised = "none"
                THEN /\ results' = DictSet(results, NameOf(arg.cls),
                            <<r.value>> \o Stored(results, NameOf(arg.cls)))
                     /\ returned' = Append(returned,
                            [idx |-> idx, arg |-> arg, out |-> proc.stdout.json,
                             record |-> r.value])
                     /\ pc' = "for"
                ELSE /\ pc' = "aborted"
                     /\ UNCHANGED <<results, returned>>
    /\ UNCHANGED <<args, outfile, idx, stdout, writes, plot>>
    /\ UNCHANGED <<normVars, enhVars>>

\* line 75: results[arg.name].append(execute_run(arg)); an exception of
\* execute_run leaves main
RunExperiment ==
    /\ pc = "run"
    /\ \E proc \in Procs :
         LET arg == args[idx]
             r   == execute_run(arg, proc)
         IN  /\ calls' = calls + 1
             /\ IF r.raised = "none"
                THEN /\ results' = DictSet(results, NameOf(arg.cls),
                            Append(Stored(results, NameOf(arg.cls)), r.value))
                     /\ returned' = Append(returned,
                            [idx |-> idx, arg |-> arg, out |-> proc.stdout.json,
                             record |-> r.value])
                     /\ pc' = "for"
                ELSE /\ pc' = "aborted"
                     /\ UNCHANGED <<results, returned>>
    /\ UNCHANGED <<args, outfile, idx, stdout, writes, plot>>
    /\ UNCHANGED <<normVars, enhVars>>

\* line 76: outfile.write_text(json.dumps(results, indent=4))
WriteResults ==
    /\ pc = "write"
    /\ outfile' = [exists |-> TRUE, text |-> json_dumps(ResultsValue(results))]
    /\ writes' = writes + 1
    /\ pc' = "done"
    /\ UNCHANGED <<args, idx, results, stdout, returned, calls, plot>>
    /\ UNCHANGED <<normVars, enhVars>>

\* the keys the plotting script indexes, in the order it does (lines 327-330)
PlotKeys == <<"fingerprint", "bloom_filter", "mphf", "fingerprint">>

\* plot_results __main__ on the file main wrote: the first key that is
\* missing raises KeyError
PlotMain ==
    /\ pc = "done"
    /\ LET res     == Call(Pipeline, outfile.text)
           missing == {i \in DOMAIN PlotKeys : ~HasKey(res.items, PlotKeys[i])}
       IN  plot' = IF missing = {} THEN "ok"
                   ELSE "KeyError"
    /\ pc' = "plotted"
    /\ UNCHANGED <<args, outfile, idx, results, stdout, returned, calls, writes>>
    /\ UNCHANGED <<normVars, enhVars>>

Next ==
    \/ Start
    \/ ForNext
    \/ PrintProgress
    \/ RunExperiment
    \/ WriteResults
    \/ PlotMain

Spec == Init /\ [][Next]_vars

-----------------------------------------------------------------------------
(* Claims about run_experiment.main and execute_run *)

\* C1: a failed execute_run aborts the sweep: no later config is executed
\* and the results file is neither written nor modified; the file is
\* written exactly once, and only after every config has returned a result.
C1_AbortWritesNothing ==
    /\ writes <= 1
    /\ (writes = 1) = (pc \in {"done", "plotted"})
    /\ writes = 1 => /\ Len(returned) = Len(args)
                     /\ calls = Len(args)
                     /\ outfile.exists
                     /\ outfile.text = json_dumps(ResultsValue(results))
    /\ writes = 0 => outfile \in InitialFiles
    /\ calls \in {Len(returned), Len(returned) + 1}
    /\ (calls = Len(returned) + 1) = (pc = "aborted")
    /\ pc = "aborted" => /\ calls = idx
                         /\ writes = 0
                         /\ outfile \in InitialFiles

\* a sweep aborted at its second run, with a later config never executed
C1_Witness ==
    /\ pc = "aborted" /\ idx = 2 /\ Len(args) = 3
    /\ Len(returned) = 1 /\ outfile = Stale

\* the records of the completed runs whose config name is k, in sweep order
RECURSIVE RecordsOf(_, _)
RecordsOf(runs, k) ==
    IF runs = <<>> THEN <<>>
    ELSE (IF NameOf(runs[1].arg.cls) = k THEN <<runs[1].record>> ELSE <<>>)
         \o RecordsOf(Tail(runs), k)

RECURSIVE SumLen(_)
SumLen(res) == IF res = <<>> THEN 0 ELSE Len(res[1][2]) + SumLen(Tail(res))

\* C2: at every point of main the sequence stored under k is exactly the
\* results of the completed runs named k, in execution order; the lengths
\* sum to the number of completed runs; the persisted document read back
\* keeps that order.
C2_GroupedInOrder ==
    /\ Keys(results) \subseteq Names
    /\ \A k \in Names : Stored(results, k) = RecordsOf(returned, k)
    /\ SumLen(results) = Len(returned)
    /\ \A i \in DOMAIN returned : returned[i].idx = i
    /\ writes = 1 =>
         LET doc == read_data(outfile.text)
         IN  /\ Keys(doc.items) = Keys(results)
             /\ \A k \in Keys(results) :
                    Get(doc.items, k) = PyList(RecordsOf(returned, k))

\* two different records of one kind around a record of another kind
C2_Witness ==
    /\ writes = 1 /\ Len(returned) = 3
    /\ NameOf(returned[1].arg.cls) = "mphf"
    /\ NameOf(returned[2].arg.cls) = "bloom-filter"
    /\ NameOf(returned[3].arg.cls) = "mphf"
    /\ returned[1].record # returned[3].record

\* a run's record is the union of both mappings; on a shared key the output wins
MergedRight(run) ==
    LET cfg == unstructure(run.arg)
        out == json_loads(run.out).items
        rec == run.record.items
    IN  /\ Keys(rec) = Keys(cfg) \cup Keys(out)
        /\ \A k \in Keys(rec) :
              Get(rec, k) = IF HasKey(out, k) THEN Get(out, k) ELSE Get(cfg, k)

\* the same union, with the config winning on a shared key
MergedLeft(run) ==
    LET cfg == unstructure(run.arg)
        out == json_loads(run.out).items
        rec == run.record.items
    IN  /\ Keys(rec) = Keys(cfg) \cup Keys(out)
        /\ \A k \in Keys(rec) :
              Get(rec, k) = IF HasKey(cfg, k) THEN Get(cfg, k) ELSE Get(out, k)

\* C3 as stated: the record is the union of the config's fields and the
\* parsed output's fields, and a key present in both carries the config's
\* value.
C3_ConfigWins == \A i \in DOMAIN returned : MergedLeft(returned[i])

\* C3 amended: the record is that union, and a key present in both carries
\* the external program's value.
C3_OutputWins == \A i \in DOMAIN returned : MergedRight(returned[i])

\* a run whose output repeats a config key with another value
C3_Witness ==
    \E i \in DOMAIN returned :
        LET cfg == unstructure(returned[i].arg)
            out == json_loads(returned[i].out).items
        IN  \E k \in Keys(cfg) \cap Keys(out) : Get(cfg, k) # Get(out, k)

\* C4: for every sweep main runs to completion, the empty one included, the
\* persisted document with its keys canonicalized has exactly the top-level
\* keys mphf, fingerprint and bloom_filter, each an array, and the plotting
\* script can index all three.
C4_ThreeKeys ==
    /\ pc \in {"done", "plotted"} =>
         LET doc == convert_keys(read_data(outfile.text)).items
         IN  /\ Keys(doc) = {"mphf", "fingerprint", "bloom_filter"}
             /\ \A k \in Keys(doc) : Get(doc, k).tag = "list"
    /\ pc = "plotted" => plot = "ok"

\* C10: when the progress message for index i is emitted, execute_run has
\* already returned for config i; no message is emitted for a run that has
\* not finished or that failed.
C10_ProgressAfterRun ==
    \A j \in DOMAIN stdout : stdout[j].idx <= Len(returned)

-----------------------------------------------------------------------------
(* plot_results.py: the pipeline run stage by stage on a results document *)

MaxSecs == 1       \* largest whole-seconds component of a duration object

\* sub-second components: zero, one nanosecond, both kinds of tie, the
\* largest value
NanosCases == {0, 1, 500, 1500, 999999999}

\* a duration as the external program writes it, alone or beside another key
DurationObjects ==
    {JObject(<< <<"secs", JNumber(s)>>, <<"nanos", JNumber(n)>> >>)
        : s \in 0..MaxSecs, n \in NanosCases}
    \cup
    {JObject(<< <<"secs", JNumber(s)>>, <<"nanos", JNumber(n)>>,
                <<"unit", JString("ns")>> >>)
        : s \in 0..MaxSecs, n \in NanosCases}

\* a result record: the duration directly under a key, or one level deeper
RecordObjects ==
    {JObject(<< <<"total_keys", JNumber(2)>>, <<k, d>> >>)
        : k \in {"query-duration", "query_duration"}, d \in DurationObjects}
    \cup
    {JObject(<< <<"name", JString("mphf")>>,
                <<"timing", JObject(<< <<k, d>> >>)>> >>)
        : k \in {"query-duration", "query_duration"}, d \in DurationObjects}

PlainRecord == JObject(<< <<"total_keys", JNumber(2)>> >>)

Docs ==
    {JObject(<< <<k, JArray(<<r>>)>> >>)
        : k \in {"bloom-filter", "mphf"}, r \in RecordObjects}
    \cup
    {JObject(<< <<"mphf", JArray(<<>>)>>,
                <<"bloom-filter", JArray(<<PlainRecord, r>>)>>,
                <<"bloom_filter", JArray(<<r>>)>> >>)
        : r \in {q \in RecordObjects : HasKey(q.members, "query-duration")}}

NormInit ==
    /\ ndoc \in Docs
    /\ nval = ndoc /\ nprev = ndoc /\ nstep = 0
    /\ MainIdle /\ EnhIdle

\* the stage the composed callable applies next: the innermost call first
StageName == Pipeline[Len(Pipeline) - nstep]

NormReadData ==
    /\ nstep < Len(Pipeline) /\ StageName = "read_data"
    /\ nprev' = nval /\ nval' = read_data(nval) /\ nstep' = nstep + 1
    /\ UNCHANGED <<ndoc, mainVars, enhVars>>

NormConvertKeys ==
    /\ nstep < Len(Pipeline) /\ StageName = "convert_keys"
    /\ nprev' = nval /\ nval' = convert_keys(nval) /\ nstep' = nstep + 1
    /\ UNCHANGED <<ndoc, mainVars, enhVars>>

NormConvertTimedelta ==
    /\ nstep < Len(Pipeline) /\ StageName = "convert_timedelta"
    /\ nprev' = nval /\ nval' = convert_timedelta(nval) /\ nstep' = nstep + 1
    /\ UNCHANGED <<ndoc, mainVars, enhVars>>

NormNext ==
    \/ NormReadData
    \/ NormConvertKeys
    \/ NormConvertTimedelta

SpecNorm == NormInit /\ [][NormNext]_vars

-----------------------------------------------------------------------------
(* Claims about the normalization pipeline *)

NormDone == nstep = Len(Pipeline)

RECURSIVE DurationsExact(_, _)
\* every node of `before` whose key set is {secs, nanos} has become, at the
\* same place of `after`, the duration of exactly secs * 10^9 + nanos ns
DurationsExact(before, after) ==
    IF before.tag = "dict"
    THEN IF Keys(before.items) = {"secs", "nanos"}
         THEN /\ after.tag = "timedelta"
              /\ after.seconds = Get(before.items, "secs").val
              /\ after.microseconds * 1000 = Get(before.items, "nanos").val
         ELSE after.tag = "dict" =>
                \A i \in DOMAIN before.items :
                    i \in DOMAIN after.items =>
                        DurationsExact(before.items[i][2], after.items[i][2])
    ELSE IF before.tag = "list"
         THEN after.tag = "list" =>
                \A i \in DOMAIN before.elems :
                    i \in DOMAIN after.elems =>
                        DurationsExact(before.elems[i], after.elems[i])
         ELSE TRUE

\* C5: every {secs: s, nanos: n} object, at any depth, becomes the duration
\* of exactly s * 10^9 + n nanoseconds.
C5_NanosecondExact == NormDone => DurationsExact(nprev, nval)

RECURSIVE Converted(_, _, _)
\* `after` is `before` with the marked mappings replaced by durations, the
\* other mappings kept entry by entry, sequences kept element by element
\* and scalars unchanged.  exact: a mapping is marked when its key set is
\* exactly {secs, nanos}; otherwise when it has both keys.
Converted(before, after, exact) ==
    IF before.tag = "dict"
    THEN IF (IF exact THEN Keys(before.items) = {"secs", "nanos"}
                      ELSE {"secs", "nanos"} \subseteq Keys(before.items))
         THEN after.tag = "timedelta"
         ELSE /\ after.tag = "dict"
              /\ Len(after.items) = Len(before.items)
              /\ \A i \in DOMAIN before.items :
                    /\ after.items[i][1] = before.items[i][1]
                    /\ Converted(before.items[i][2], after.items[i][2], exact)
    ELSE IF before.tag = "list"
         THEN /\ after.tag = "list"
              /\ Len(after.elems) = Len(before.elems)
              /\ \A i \in DOMAIN before.elems :
                    Converted(before.elems[i], after.elems[i], exact)
         ELSE after = before

RECURSIVE HasMarkedWithExtra(_)
HasMarkedWithExtra(v) ==
    IF v.tag = "dict"
    THEN \/ /\ {"secs", "nanos"} \subseteq Keys(v.items)
            /\ Keys(v.items) # {"secs", "nanos"}
         \/ \E i \in DOMAIN v.items : HasMarkedWithExtra(v.items[i][2])
    ELSE IF v.tag = "list"
         THEN \E i \in DOMAIN v.elems : HasMarkedWithExtra(v.elems[i])
         ELSE FALSE

HasHyphen(k) == \E i \in 1..Len(k) : SubSeq(k, i, i) = "-"

RECURSIVE AllKeys(_)
\* the keys of every mapping node of a value
AllKeys(v) ==
    IF v.tag = "dict"
    THEN Keys(v.items) \cup UNION {AllKeys(v.items[i][2]) : i \in DOMAIN v.items}
    ELSE IF v.tag = "list"
         THEN UNION {AllKeys(v.elems[i]) : i \in DOMAIN v.elems}
         ELSE {}

\* C8 as stated: after the pipeline every key of every mapping node, at
\* every depth, has '-' replaced by '_', and rewriting again changes nothing.
C8_EveryDepth ==
    NormDone => /\ \A k \in AllKeys(nval) : ~HasHyphen(k)
                /\ convert_keys(nval) = nval

\* the keys of the records held under the top-level key k of a document
RecordKeys(items, k) ==
    LET lst == Get(items, k).elems
    IN  [i \in DOMAIN lst |-> Keys(lst[i].items)]

\* C8 amended: after the pipeline every top-level key has all its '-'
\* replaced by '_' (the keys inside the records are left as they were read),
\* and rewriting the keys again changes nothing.
C8_TopLevelOnly ==
    NormDone =>
        LET src == read_data(ndoc).items
        IN  /\ nval.tag = "dict"
            /\ Keys(nval.items) = {str_replace(k, "-", "_") : k \in Keys(src)}
            /\ \A k \in Keys(nval.items) : ~HasHyphen(k)
            /\ \A k \in Keys(nval.items) :
                  \E k0 \in Keys(src) :
                      /\ str_replace(k0, "-", "_") = k
                      /\ RecordKeys(nval.items, k) = RecordKeys(src, k0)
            /\ convert_keys(nval) = nval

\* a normalized document read with a hyphenated top-level key and a
\* hyphenated key inside a record
C8_Witness ==
    /\ NormDone
    /\ HasKey(read_data(ndoc).items, "bloom-filter")
    /\ HasKey(nval.items, "bloom_filter")
    /\ \E k \in AllKeys(nval) : HasHyphen(k)

-----------------------------------------------------------------------------
(* plot_results.py: enhance and the observed_fpp pivot of plot_task_1 *)

\* float64 and timedelta64[ns] cells of a DataFrame
NaN            == [tag |-> "nan"]
Inf            == [tag |-> "inf"]
NaT            == [tag |-> "NaT"]
Float(n, d)    == [tag |-> "float", num |-> n, den |-> d]
Timedelta(ns)  == [tag |-> "Timedelta", value |-> ns]
ZeroDivision   == [tag |-> "ZeroDivisionError"]

\* pd.DataFrame(records): a datetime.timedelta becomes nanoseconds
to_timedelta64(td) == Timedelta((td.seconds * 1000000 + td.microseconds) * 1000)

\* the records plot_task_1 is handed: negative_keys is the external
\* program's own count, false_positive_count never exceeds it
Rows ==
    {[total_keys |-> 2, positive_keys |-> p, negative_keys |-> n,
      false_positive_count |-> fp, serialized_size |-> 1000,
      fpp |-> PyFloat(1, 128),
      positives_query_duration |-> PyTimedelta(0, pd),
      negatives_query_duration |-> PyTimedelta(0, nd)]
        : p \in {1, 2}, n \in {0, 1}, fp \in {0, 1}, pd \in {1, 3}, nd \in {0, 2}}

ValidRows == {r \in Rows : /\ r.false_positive_count <= r.negative_keys
                           /\ r.negative_keys \in {0, r.total_keys - r.positive_keys}}

Tables == UNION {[1..n -> ValidRows] : n \in 1..MaxRows}

\* mutant of series_truediv: Python's own integer division by zero
series_truediv_raises(a, b) ==
    IF b = 0 THEN ZeroDivision ELSE Float(a, b)

\* int64 Series / int64 Series, one element: float division, where x / 0 is
\* inf, 0 / 0 is nan, and nothing is raised
series_truediv(a, b) ==
    IF b = 0 THEN (IF a = 0 THEN NaN ELSE Inf) ELSE Float(a, b)

\* timedelta64[ns] Series / int64 Series, one element: whole nanoseconds,
\* and NaT for a zero divisor
timedelta_truediv(td, b) ==
    IF b = 0 THEN NaT ELSE Timedelta(td.value \div b)

\* Timedelta.nanoseconds: the nanosecond component, 0..999
nanoseconds(td) == td.value % 1000

enhance_row(r) ==
    LET pos == to_timedelta64(r.positives_query_duration)
        neg == to_timedelta64(r.negatives_query_duration)
    IN  [total_keys |-> r.total_keys,
         positive_keys |-> r.positive_keys,
         negative_keys |-> r.negative_keys,
         false_positive_count |-> r.false_positive_count,
         serialized_size |-> r.serialized_size,
         fpp |-> r.fpp,
         fpp_fraction |-> <<r.fpp.num, r.fpp.den>>,
         positives_query_duration |-> pos,
         negatives_query_duration |-> neg,
         observed_fpp |-> series_truediv(r.false_positive_count, r.negative_keys),
         ratio |-> series_truediv(r.positive_keys, r.total_keys),
         avg_positive_query_duration |-> timedelta_truediv(pos, r.positive_keys),
         avg_negative_query_duration |-> timedelta_truediv(neg, r.negative_keys),
         avg_query_nanoseconds |->
             nanoseconds(timedelta_truediv(Timedelta(pos.value + neg.value),
                                           r.total_keys)),
         bits_per_key |-> series_truediv(r.serialized_size * 8, r.positive_keys)]

enhance(df) == [i \in DOMAIN df |-> enhance_row(df[i])]

Raises(df) ==
    \E i \in DOMAIN df :
        \E c \in {df[i].observed_fpp, df[i].ratio, df[i].bits_per_key} :
            c = ZeroDivision

RECURSIVE RatSum(_)
RatSum(xs) ==
    IF xs = <<>> THEN Float(0, 1)
    ELSE LET t == RatSum(Tail(xs))
         IN  Float(xs[1].num * t.den + t.num * xs[1].den, xs[1].den * t.den)

RECURSIVE CellValues(_, _)
\* the observed_fpp values of the rows of a pivot cell, in row order
CellValues(df, cell) ==
    IF df = <<>> THEN <<>>
    ELSE (IF /\ df[1].total_keys = cell.total_keys
             /\ df[1].fpp_fraction = cell.fpp_fraction
             /\ df[1].positive_keys = cell.positive_keys
          THEN <<df[1].observed_fpp>> ELSE <<>>)
         \o CellValues(Tail(df), cell)

IsNumber(x) == x.tag = "float"

\* aggfunc=np.mean inside pivot_table: the mean of the values that are not
\* missing, and missing when there are none
mean(xs) ==
    LET present == SelectSeq(xs, IsNumber)
    IN  IF present = <<>> THEN NaN
        ELSE LET t == RatSum(present)
             IN  Float(t.num, t.den * Len(present))

Cells(df) ==
    {[total_keys |-> df[i].total_keys, fpp_fraction |-> df[i].fpp_fraction,
      positive_keys |-> df[i].positive_keys] : i \in DOMAIN df}

\* lines 94-101: per total_keys group, observed_fpp by fpp_fraction and
\* positive_keys
pivot_table(df) == [c \in Cells(df) |-> mean(CellValues(df, c))]

EnhInit ==
    /\ table \in Tables
    /\ epc = "start" /\ pivot = <<>>
    /\ MainIdle /\ NormIdle

\* line 92: df = enhance(df)
Enhance ==
    /\ epc = "start"
    /\ LET out == enhance(table)
       IN  IF Raises(out)
           THEN epc' = "raised" /\ table' = table
           ELSE epc' = "enhanced" /\ table' = out
    /\ UNCHANGED <<pivot, mainVars, normVars>>

Pivot ==
    /\ epc = "enhanced"
    /\ pivot' = pivot_table(table)
    /\ epc' = "pivoted"
    /\ UNCHANGED <<table, mainVars, normVars>>

EnhNext ==
    \/ Enhance
    \/ Pivot

SpecEnh == EnhInit /\ [][EnhNext]_vars

-----------------------------------------------------------------------------
(* Claims about enhance and the pivot *)

Enhanced == epc \in {"enhanced", "pivoted"}

\* C6: for every record with total_keys > 0, avg_query_nanoseconds is the
\* whole combined average (positives + negatives) / total_keys as a total
\* count of nanoseconds, below and above one microsecond alike.
C6_TotalNanoseconds ==
    Enhanced =>
        \A i \in DOMAIN table :
            table[i].total_keys > 0 =>
                table[i].avg_query_nanoseconds =
                    (table[i].positives_query_duration.value
                     + table[i].negatives_query_duration.value)
                    \div table[i].total_keys

RatEq(x, n, d) == x.tag = "float" /\ x.num * d = n * x.den

RECURSIVE ProdDen(_)
ProdDen(xs) == IF xs = <<>> THEN 1 ELSE xs[1].den * ProdDen(Tail(xs))

RECURSIVE ScaledSum(_, _)
\* the sum of the fractions xs, each scaled by D
ScaledSum(xs, D) ==
    IF xs = <<>> THEN 0
    ELSE xs[1].num * (D \div xs[1].den) + ScaledSum(Tail(xs), D)

\* C9: enhance never raises on a table holding a record with
\* negative_keys = 0: that record's observed_fpp is not-a-number, the other
\* records' metrics are computed normally, and the undefined value is left
\* out of the mean of its pivot cell.
C9_UndefinedNotFatal ==
    (\E i \in DOMAIN table : table[i].negative_keys = 0) =>
        /\ epc # "raised"
        /\ Enhanced =>
             \A i \in DOMAIN table :
                LET r == table[i]
                IN  /\ r.negative_keys = 0 => r.observed_fpp = NaN
                    /\ r.negative_keys > 0 =>
                          RatEq(r.observed_fpp, r.false_positive_count,
                                r.negative_keys)
                    /\ RatEq(r.ratio, r.positive_keys, r.total_keys)
                    /\ RatEq(r.bits_per_key, r.serialized_size * 8,
                             r.positive_keys)
        /\ epc = "pivoted" =>
             /\ DOMAIN pivot = Cells(table)
             /\ \A c \in Cells(table) :
                   LET defined == SelectSeq(CellValues(table, c), IsNumber)
                       D       == ProdDen(defined)
                   IN  IF defined = <<>> THEN pivot[c] = NaN
                       ELSE RatEq(pivot[c], ScaledSum(defined, D),
                                  D * Len(defined))

\* a pivoted table with a record of negative_keys = 0 and a record with a
\* defined, non-zero rate in the same pivot cell
C9_Witness ==
    /\ epc = "pivoted"
    /\ \E i, j \in DOMAIN table :
          /\ table[i].negative_keys = 0
          /\ table[j].negative_keys > 0
          /\ table[j].false_positive_count > 0
          /\ table[i].positive_keys = table[j].positive_keys

=============================================================================
